---- MODULE Spec2Model ----
(***************************************************************************)
(* Transfer engine of the ledger service: TransferService                  *)
(* (initiateTransfer, initiateTransferWithRetry, buildFilter, find) over a *)
(* transactional datastore with snapshot isolation: a transaction takes    *)
(* its snapshot at its first statement, and a write to a row that another  *)
(* transaction committed since then fails with SQL state 40001.            *)
(***************************************************************************)
EXTENDS Integers, Sequences, FiniteSets, TLC

\* ---------------------------------------------------------------- bounds
NumUsers == 2
MaxAmount == 1
InitBalance == 1
MaxRef == 2
MaxBudget == 2
MaxSkip == 1
MaxTake == 2

Users == 1..NumUsers
\* two concurrent callers, each making one call of initiateTransferWithRetry
Procs == {1, 2}
Amounts == 1..MaxAmount
\* the amounts a caller can pass: initiateTransfer takes any number
AnyAmounts == (0 - MaxAmount)..MaxAmount
Refs == 1..MaxRef
\* the handle no identity carries ("nouser")
NoUser == 0
Handles == Users \cup {NoUser}
RetryBudgets == 0..MaxBudget
\* an absent startPeriodDatetime or endPeriodDatetime
NoDate == 0
\* the values of createdAt and of the bounds of a query
Times == 1..Cardinality(Procs)
Dates == Times \cup {NoDate}

\* null and undefined, as records so that they compare with entities
Null == [null |-> TRUE]
Undefined == [undefined |-> TRUE]
\* error.code of a serialization failure
SerializationFailure == "40001"
\* error.code of a lost connection, a persistence failure that is no conflict
ConnectionFailure == "08006"
\* error.code of a unique violation
UniqueViolation == "23505"
NoCode == "none"

VARIABLES
    balance,      \* committed balance of each account
    transfers,    \* committed Transfer rows
    applied,      \* committed balance mutations, by attempt (history)
    pc,           \* position of each caller
    input,        \* initiateTransferInput of each caller's invocation
    retries,      \* the retries argument of the current (recursive) call
    balanceBefore,\* senderAccount.account.balance as looked up
    updatedBal,   \* updatedSenderAccount.balance as returned by the debit
    tx,           \* each caller's open transaction
    outcomes,     \* the attempts of the invocation, in order (history)
    result,       \* what the invocation returned
    findResult,   \* what the last find returned
    generated     \* the references the attempts generated (history)

vars == <<balance, transfers, applied, pc, input, retries,
          balanceBefore, updatedBal, tx, outcomes, result, findResult, generated>>

\* ------------------------------------------------------------- datastore
NoTx == [open |-> FALSE, snapped |-> FALSE, view |-> [a \in Users |-> 0],
         written |-> {}, dirty |-> {}, pending |-> {}, ops |-> {},
         debited |-> FALSE, credited |-> FALSE]

OpenTx == [NoTx EXCEPT !.open = TRUE]

\* the first statement of a transaction takes its snapshot
Snapshot(t) ==
    IF t.snapped THEN t
    ELSE [t EXCEPT !.snapped = TRUE, !.view = balance, !.dirty = {}]

\* a commit on the accounts W marks them changed under every other snapshot
Invalidate(t, W) ==
    IF t.open /\ t.snapped THEN [t EXCEPT !.dirty = @ \cup W] ELSE t

\* a statement that updates a row changed by a transaction that committed after
\* the snapshot fails with a serialization failure
WriteConflict(t, id) == id \in t.dirty

\* the ledger mutator's funds check
CanDebit(t, id, amount) == amount <= t.view[id]

\* the ledger mutator's balance update, inside the transaction
Mutate(t, kind, id, delta) ==
    [t EXCEPT !.view[id] = @ + delta, !.written = @ \cup {id},
              !.ops = @ \cup {[kind |-> kind, account |-> id, delta |-> delta]}]

\* the store of Transfer rows is keyed by the reference: a row whose reference
\* a committed row carries is refused
DuplicateKey(reference) == \E t \in transfers : t.reference = reference

\* createdAt, assigned by the store
Stamp(r, now) ==
    [id |-> r.id, sender |-> r.sender, receiver |-> r.receiver, amount |-> r.amount,
     reference |-> r.reference, balanceBefore |-> r.balanceBefore,
     balanceAfter |-> r.balanceAfter, createdAt |-> now]

RECURSIVE SumDeltas(_)
SumDeltas(S) ==
    IF S = {} THEN 0
    ELSE LET e == CHOOSE x \in S : TRUE
         IN  e.delta + SumDeltas(S \ {e})

RECURSIVE SumBalances(_, _)
SumBalances(b, A) ==
    IF A = {} THEN 0
    ELSE LET a == CHOOSE x \in A : TRUE
         IN  b[a] + SumBalances(b, A \ {a})

\* ------------------------------------------------------ identity resolver
\* userService.findByUserId: the identity with its account, read outside the
\* transaction's manager, so from the committed state at the time of the call
FindByUserId(id) == [id |-> id, account |-> [id |-> id, balance |-> balance[id]]]

\* userService.findByUsername(handle, true)
FindByUsername(handle) ==
    IF handle \in Users
    THEN [id |-> handle, account |-> [id |-> handle, balance |-> balance[handle]]]
    ELSE Null

\* ---------------------------------------------------------- retry policy
Code(err) ==
    CASE err = "TransactionConflict" -> SerializationFailure
      [] err = "ConnectionLost" -> ConnectionFailure
      [] err = "DuplicateReference" -> UniqueViolation
      [] OTHER -> NoCode

\* the retry keyed on the deadlock code instead of the serialization failure
ShouldRetryOnDeadlock(code, n) == code = "40P01" /\ n > 0

\* the retry keyed on the budget alone
ShouldRetryAnyError(code, n) == n > 0

\* error.code === '40001' && retries > 0
ShouldRetry(code, n) == code = SerializationFailure /\ n > 0

\* the budget handed on as it is
NextBudgetKept(n) == n

\* retries - 1
NextBudget(n) == n - 1

\* the attempt p is in: <<call, number of the attempt>>
AttemptId(p) == <<input[p].call, Len(outcomes[p]) + 1>>

Init ==
    /\ balance = [a \in Users |-> InitBalance]
    /\ transfers = {}
    /\ applied = {}
    /\ pc = [p \in Procs |-> "idle"]
    /\ input = [p \in Procs |-> Null]
    /\ retries = [p \in Procs |-> 0]
    /\ balanceBefore = [p \in Procs |-> 0]
    /\ updatedBal = [p \in Procs |-> 0]
    /\ tx = [p \in Procs |-> NoTx]
    /\ outcomes = [p \in Procs |-> <<>>]
    /\ result = [p \in Procs |-> Null]
    /\ findResult = Null
    /\ generated = {}

\* the error reaches the catch block with the transaction left as it is
RejectedWithoutRollback(p, err) ==
    /\ tx' = tx
    /\ balanceBefore' = [balanceBefore EXCEPT ![p] = 0]
    /\ updatedBal' = [updatedBal EXCEPT ![p] = 0]
    /\ outcomes' = [outcomes EXCEPT ![p] =
            Append(@, [err |-> err, debited |-> tx[p].debited,
                       credited |-> tx[p].credited])]
    /\ IF ShouldRetry(Code(err), retries[p])
       THEN /\ pc' = [pc EXCEPT ![p] = "backoff"]
            /\ UNCHANGED result
       ELSE /\ pc' = [pc EXCEPT ![p] = "done"]
            /\ result' = [result EXCEPT ![p] = Undefined]

\* the transaction of p rolls back and the error reaches the catch block of
\* initiateTransferWithRetry
Rejected(p, err) ==
    /\ tx' = [tx EXCEPT ![p] = NoTx]
    /\ balanceBefore' = [balanceBefore EXCEPT ![p] = 0]
    /\ updatedBal' = [updatedBal EXCEPT ![p] = 0]
    /\ outcomes' = [outcomes EXCEPT ![p] =
            Append(@, [err |-> err, debited |-> tx[p].debited,
                       credited |-> tx[p].credited])]
    /\ IF ShouldRetry(Code(err), retries[p])
       THEN /\ pc' = [pc EXCEPT ![p] = "backoff"]
            /\ UNCHANGED result
       ELSE /\ pc' = [pc EXCEPT ![p] = "done"]
            /\ result' = [result EXCEPT ![p] = Undefined]

\* initiateTransferWithRetry(input, n) is called; datasource.transaction
\* starts the transaction of the first attempt
Invoke(p, s, r, a, n) ==
    /\ pc[p] = "idle"
    /\ input' = [input EXCEPT ![p] =
            [call |-> p, sender |-> s, receiver |-> r, amount |-> a, budget |-> n]]
    /\ retries' = [retries EXCEPT ![p] = n]
    /\ outcomes' = [outcomes EXCEPT ![p] = <<>>]
    /\ result' = [result EXCEPT ![p] = Null]
    /\ tx' = [tx EXCEPT ![p] = OpenTx]
    /\ pc' = [pc EXCEPT ![p] = "lookup"]
    /\ UNCHANGED <<balance, transfers, applied, balanceBefore, updatedBal,
                   findResult, generated>>

\* the lookups without the recipient check
LookupWithoutCheck(p) ==
    /\ pc[p] = "lookup"
    /\ balanceBefore' = [balanceBefore EXCEPT ![p] =
                            FindByUserId(input[p].sender).account.balance]
    /\ pc' = [pc EXCEPT ![p] = "debit"]
    /\ UNCHANGED <<balance, transfers, applied, input, retries, updatedBal, tx,
                   outcomes, result, findResult, generated>>

\* the lookups followed by the credit, with no debit before it
LookupThenCredit(p) ==
    /\ pc[p] = "lookup"
    /\ LET senderAccount == FindByUserId(input[p].sender)
           receiverAccount == FindByUsername(input[p].receiver)
       IN  IF receiverAccount = Null
           THEN Rejected(p, "RecipientNotFound")
           ELSE /\ balanceBefore' = [balanceBefore EXCEPT ![p] =
                                        senderAccount.account.balance]
                /\ pc' = [pc EXCEPT ![p] = "credit"]
                /\ UNCHANGED <<tx, outcomes, result, updatedBal>>
    /\ UNCHANGED <<balance, transfers, applied, input,
                   retries, findResult, generated>>

\* findByUserId, findByUsername, the recipient check and the capture of
\* balanceBefore
Lookup(p) ==
    /\ pc[p] = "lookup"
    /\ LET senderAccount == FindByUserId(input[p].sender)
           receiverAccount == FindByUsername(input[p].receiver)
       IN  IF receiverAccount = Null
           THEN Rejected(p, "RecipientNotFound")
           ELSE /\ balanceBefore' = [balanceBefore EXCEPT ![p] =
                                        senderAccount.account.balance]
                /\ pc' = [pc EXCEPT ![p] = "debit"]
                /\ UNCHANGED <<tx, outcomes, result, updatedBal>>
    /\ UNCHANGED <<balance, transfers, applied, input,
                   retries, findResult, generated>>

\* the debit not awaited: its rejection does not stop the attempt
DebitNotAwaited(p) ==
    /\ pc[p] = "debit"
    /\ LET t == Snapshot(tx[p])
           id == input[p].sender
           amount == input[p].amount
       IN  /\ tx' = [tx EXCEPT ![p] =
                    IF CanDebit(t, id, amount)
                    THEN [Mutate(t, "debit", id, 0 - amount) EXCEPT !.debited = TRUE]
                    ELSE t]
           /\ updatedBal' = [updatedBal EXCEPT ![p] = t.view[id] - amount]
    /\ pc' = [pc EXCEPT ![p] = "credit"]
    /\ UNCHANGED <<balance, transfers, applied, input, retries, balanceBefore,
                   outcomes, result, findResult, generated>>

\* the debit issued without the manager: it commits on its own
DebitWithoutManager(p) ==
    /\ pc[p] = "debit"
    /\ LET id == input[p].sender
           amount == input[p].amount
       IN  IF amount > balance[id]
           THEN /\ Rejected(p, "InsufficientFunds")
                /\ UNCHANGED <<balance, applied>>
           ELSE /\ balance' = [balance EXCEPT ![id] = @ - amount]
                /\ applied' = applied \cup
                       {[attempt |-> AttemptId(p), kind |-> "debit", account |-> id,
                         delta |-> 0 - amount]}
                /\ tx' = [q \in Procs |->
                       IF q = p THEN [Invalidate(tx[q], {id}) EXCEPT !.debited = TRUE]
                       ELSE Invalidate(tx[q], {id})]
                /\ updatedBal' = [updatedBal EXCEPT ![p] = balance[id] - amount]
                /\ pc' = [pc EXCEPT ![p] = "credit"]
                /\ UNCHANGED <<outcomes, result, balanceBefore>>
    /\ UNCHANGED <<transfers, input, retries, findResult, generated>>

\* accountService.debitAccount(senderAccount.account.id, amount, manager)
Debit(p) ==
    /\ pc[p] = "debit"
    /\ LET t == Snapshot(tx[p])
           id == input[p].sender
           amount == input[p].amount
       IN  IF WriteConflict(t, id)
           THEN Rejected(p, "TransactionConflict")
           ELSE IF ~CanDebit(t, id, amount)
           THEN Rejected(p, "InsufficientFunds")
           ELSE /\ tx' = [tx EXCEPT ![p] =
                            [Mutate(t, "debit", id, 0 - amount) EXCEPT !.debited = TRUE]]
                /\ updatedBal' = [updatedBal EXCEPT ![p] = t.view[id] - amount]
                /\ pc' = [pc EXCEPT ![p] = "credit"]
                /\ UNCHANGED <<outcomes, result, balanceBefore>>
    /\ UNCHANGED <<balance, transfers, applied, input,
                   retries, findResult, generated>>

\* the credit issued without the manager: it commits on its own
CreditWithoutManager(p) ==
    /\ pc[p] = "credit"
    /\ LET id == FindByUsername(input[p].receiver).account.id
           amount == input[p].amount
       IN  /\ balance' = [balance EXCEPT ![id] = @ + amount]
           /\ applied' = applied \cup
                  {[attempt |-> AttemptId(p), kind |-> "credit", account |-> id,
                    delta |-> amount]}
           /\ tx' = [q \in Procs |->
                  IF q = p THEN [Invalidate(tx[q], {id}) EXCEPT !.credited = TRUE]
                  ELSE Invalidate(tx[q], {id})]
    /\ pc' = [pc EXCEPT ![p] = "save"]
    /\ UNCHANGED <<transfers, input, retries, balanceBefore, updatedBal, outcomes,
                   result, findResult, generated>>

\* the credit issued on the sender's account
CreditToSender(p) ==
    /\ pc[p] = "credit"
    /\ LET t == Snapshot(tx[p])
           id == input[p].sender
           amount == input[p].amount
       IN  tx' = [tx EXCEPT ![p] =
                    [Mutate(t, "credit", id, amount) EXCEPT !.credited = TRUE]]
    /\ pc' = [pc EXCEPT ![p] = "save"]
    /\ UNCHANGED <<balance, transfers, applied, input, retries, balanceBefore,
                   updatedBal, outcomes, result, findResult, generated>>

\* accountService.creditAccount(receiverAccount.account.id, amount, manager)
Credit(p) ==
    /\ pc[p] = "credit"
    /\ LET t == Snapshot(tx[p])
           id == FindByUsername(input[p].receiver).account.id
           amount == input[p].amount
       IN  IF WriteConflict(t, id)
           THEN Rejected(p, "TransactionConflict")
           ELSE /\ tx' = [tx EXCEPT ![p] =
                            [Mutate(t, "credit", id, amount) EXCEPT !.credited = TRUE]]
                /\ pc' = [pc EXCEPT ![p] = "save"]
                /\ UNCHANGED <<outcomes, result, balanceBefore, updatedBal>>
    /\ UNCHANGED <<balance, transfers, applied, input,
                   retries, findResult, generated>>

\* the reference generated once for the call and used again by its retries
SaveReusingReference(p) ==
    /\ pc[p] = "save"
    /\ LET earlier == {g \in generated : g.attempt[1] = input[p].call}
       IN  \E reference \in Refs :
              /\ earlier # {} => reference \in {g.reference : g \in earlier}
              /\ generated' =
                    IF earlier = {}
                    THEN generated \cup
                            {[attempt |-> AttemptId(p), reference |-> reference]}
                    ELSE generated
              /\ IF DuplicateKey(reference)
                 THEN Rejected(p, "DuplicateReference")
                 ELSE /\ tx' = [tx EXCEPT ![p].pending = @ \cup
                                {[id |-> AttemptId(p),
                                  sender |-> input[p].sender,
                                  receiver |-> FindByUsername(input[p].receiver).id,
                                  amount |-> input[p].amount,
                                  reference |-> reference,
                                  balanceBefore |-> balanceBefore[p],
                                  balanceAfter |-> updatedBal[p]]}]
                      /\ pc' = [pc EXCEPT ![p] = "commit"]
                      /\ UNCHANGED <<outcomes, result, balanceBefore, updatedBal>>
    /\ UNCHANGED <<balance, transfers, applied, input, retries, findResult>>

\* randomstring.generate, transferRepo.create and manager.save(transfer); the
\* generator may return any token, one it returned before included
Save(p) ==
    /\ pc[p] = "save"
    /\ \E reference \in Refs :
              /\ generated' = generated \cup
                    {[attempt |-> AttemptId(p), reference |-> reference]}
              /\ IF DuplicateKey(reference)
                 THEN Rejected(p, "DuplicateReference")
                 ELSE /\ tx' = [tx EXCEPT ![p].pending = @ \cup
                                {[id |-> AttemptId(p),
                                  sender |-> input[p].sender,
                                  receiver |-> FindByUsername(input[p].receiver).id,
                                  amount |-> input[p].amount,
                                  reference |-> reference,
                                  balanceBefore |-> balanceBefore[p],
                                  balanceAfter |-> updatedBal[p]]}]
                      /\ pc' = [pc EXCEPT ![p] = "commit"]
                      /\ UNCHANGED <<outcomes, result, balanceBefore, updatedBal>>
    /\ UNCHANGED <<balance, transfers, applied, input, retries, findResult>>

\* manager.save fails for a reason that is no conflict
SaveFails(p) ==
    /\ pc[p] = "save"
    /\ Rejected(p, "ConnectionLost")
    /\ UNCHANGED <<balance, transfers, applied, input,
                   retries, findResult, generated>>

\* the save overwriting the row of the sender's last transfer
CommitOverwriting(p) ==
    /\ pc[p] = "commit"
    /\ IF tx[p].written \cap tx[p].dirty # {}
       THEN /\ Rejected(p, "TransactionConflict")
            /\ UNCHANGED <<balance, transfers, applied>>
       ELSE IF \E r \in tx[p].pending : DuplicateKey(r.reference)
       THEN /\ Rejected(p, "DuplicateReference")
            /\ UNCHANGED <<balance, transfers, applied>>
       ELSE LET saved == {Stamp(r, Cardinality(transfers) + 1) : r \in tx[p].pending}
            IN  /\ balance' = [a \in Users |->
                        IF a \in tx[p].written THEN tx[p].view[a] ELSE balance[a]]
                /\ transfers' =
                        {t \in transfers : \A r \in saved : t.sender # r.sender}
                            \cup saved
                /\ applied' = applied \cup
                        {[attempt |-> AttemptId(p), kind |-> op.kind,
                          account |-> op.account, delta |-> op.delta] :
                         op \in tx[p].ops}
                /\ tx' = [q \in Procs |->
                        IF q = p THEN NoTx ELSE Invalidate(tx[q], tx[p].written)]
                /\ outcomes' = [outcomes EXCEPT ![p] =
                        Append(@, [err |-> "ok", debited |-> tx[p].debited,
                                   credited |-> tx[p].credited])]
                /\ pc' = [pc EXCEPT ![p] = "done"]
                /\ result' = [result EXCEPT ![p] = CHOOSE r \in saved : TRUE]
                /\ balanceBefore' = [balanceBefore EXCEPT ![p] = 0]
                /\ updatedBal' = [updatedBal EXCEPT ![p] = 0]
    /\ UNCHANGED <<input, retries, findResult, generated>>

\* the callback returned savedTransfer: datasource.transaction commits
Commit(p) ==
    /\ pc[p] = "commit"
    /\ IF tx[p].written \cap tx[p].dirty # {}
       THEN /\ Rejected(p, "TransactionConflict")
            /\ UNCHANGED <<balance, transfers, applied>>
       ELSE IF \E r \in tx[p].pending : DuplicateKey(r.reference)
       THEN /\ Rejected(p, "DuplicateReference")
            /\ UNCHANGED <<balance, transfers, applied>>
       ELSE LET saved == {Stamp(r, Cardinality(transfers) + 1) : r \in tx[p].pending}
            IN  /\ balance' = [a \in Users |->
                        IF a \in tx[p].written THEN tx[p].view[a] ELSE balance[a]]
                /\ transfers' = transfers \cup saved
                /\ applied' = applied \cup
                        {[attempt |-> AttemptId(p), kind |-> op.kind,
                          account |-> op.account, delta |-> op.delta] :
                         op \in tx[p].ops}
                /\ tx' = [q \in Procs |->
                        IF q = p THEN NoTx ELSE Invalidate(tx[q], tx[p].written)]
                /\ outcomes' = [outcomes EXCEPT ![p] =
                        Append(@, [err |-> "ok", debited |-> tx[p].debited,
                                   credited |-> tx[p].credited])]
                /\ pc' = [pc EXCEPT ![p] = "done"]
                /\ result' = [result EXCEPT ![p] = CHOOSE r \in saved : TRUE]
                /\ balanceBefore' = [balanceBefore EXCEPT ![p] = 0]
                /\ updatedBal' = [updatedBal EXCEPT ![p] = 0]
    /\ UNCHANGED <<input, retries, findResult, generated>>

\* the 100 ms timer fires: initiateTransferWithRetry(input, retries - 1)
Retry(p) ==
    /\ pc[p] = "backoff"
    /\ retries' = [retries EXCEPT ![p] = NextBudget(@)]
    /\ tx' = [tx EXCEPT ![p] = OpenTx]
    /\ pc' = [pc EXCEPT ![p] = "lookup"]
    /\ UNCHANGED <<balance, transfers, applied, input,
                   balanceBefore, updatedBal, outcomes, result, findResult, generated>>

\* ------------------------------------------------------------ query view
\* the filter without its case for both bounds
buildFilterWithoutBetween(query) ==
    LET f0 == [op |-> "none", lo |-> NoDate, hi |-> NoDate]
        f1 == IF query.startPeriodDatetime # NoDate
              THEN [op |-> "gte", lo |-> query.startPeriodDatetime, hi |-> NoDate]
              ELSE f0
    IN  IF query.endPeriodDatetime # NoDate
        THEN [op |-> "lte", lo |-> NoDate, hi |-> query.endPeriodDatetime]
        ELSE f1

\* buildFilter(query): the constraint on createdAt
buildFilter(query) ==
    LET f0 == [op |-> "none", lo |-> NoDate, hi |-> NoDate]
        f1 == IF query.startPeriodDatetime # NoDate
              THEN [op |-> "gte", lo |-> query.startPeriodDatetime, hi |-> NoDate]
              ELSE f0
        f2 == IF query.endPeriodDatetime # NoDate
              THEN [op |-> "lte", lo |-> NoDate, hi |-> query.endPeriodDatetime]
              ELSE f1
    IN  IF query.startPeriodDatetime # NoDate /\ query.endPeriodDatetime # NoDate
        THEN [op |-> "between", lo |-> query.startPeriodDatetime,
              hi |-> query.endPeriodDatetime]
        ELSE f2

\* MoreThanOrEqual, LessThanOrEqual, Between on createdAt
Satisfies(filter, t) ==
    CASE filter.op = "none" -> TRUE
      [] filter.op = "gte" -> t.createdAt >= filter.lo
      [] filter.op = "lte" -> t.createdAt <= filter.hi
      [] filter.op = "between" -> filter.lo <= t.createdAt /\ t.createdAt <= filter.hi

\* the viewer's condition left out
WhereFilterOnly(filter, userId, t) == Satisfies(filter, t)

\* WHERE <filter> AND senderId = :userId OR receiverId = :userId
\* (the string given to andWhere is not bracketed, and AND binds before OR)
Where(filter, userId, t) ==
    (Satisfies(filter, t) /\ t.sender = userId) \/ t.receiver = userId

\* ORDER BY createdAt DESC
RECURSIVE OrderByCreatedAtDesc(_)
OrderByCreatedAtDesc(S) ==
    IF S = {} THEN <<>>
    ELSE LET newest == CHOOSE t \in S : \A u \in S : u.createdAt <= t.createdAt
         IN  <<newest>> \o OrderByCreatedAtDesc(S \ {newest})

\* OFFSET skip LIMIT take
Page(rows, skip, take) ==
    SubSeq(rows, skip + 1, IF skip + take < Len(rows) THEN skip + take ELSE Len(rows))

\* the count of getManyAndCount
Count(matching, page) == Cardinality(matching)

\* find({currentUser, query, pagination}), for the one viewer request
Find(userId, query, skip, take) ==
    /\ findResult = Null
    /\ LET filter == buildFilter(query)
           matching == {t \in transfers : Where(filter, userId, t)}
           records == Page(OrderByCreatedAtDesc(matching), skip, take)
       IN  findResult' = [records |-> records, count |-> Count(matching, records),
                          userId |-> userId, query |-> query,
                          skip |-> skip, take |-> take]
    /\ UNCHANGED <<balance, transfers, applied, pc, input, retries, balanceBefore,
                   updatedBal, tx, outcomes, result, generated>>

Attempt ==
    \/ \E p \in Procs : Lookup(p)
    \/ \E p \in Procs : Debit(p)
    \/ \E p \in Procs : Credit(p)
    \/ \E p \in Procs : Save(p)
    \/ \E p \in Procs : SaveFails(p)
    \/ \E p \in Procs : Commit(p)

Next ==
    \/ \E p \in Procs, s \in Users, r \in Handles, a \in Amounts, n \in RetryBudgets :
          Invoke(p, s, r, a, n)
    \/ Attempt
    \/ \E p \in Procs : Retry(p)

Spec == Init /\ [][Next]_vars

\* every await of a call settles and its backoff timer fires: a call that can
\* take a step is not left waiting for ever
CallStep(p) ==
    \/ Lookup(p)
    \/ Debit(p)
    \/ Credit(p)
    \/ Save(p)
    \/ SaveFails(p)
    \/ Commit(p)
    \/ Retry(p)

\* the calls of amount 1 to known handles, with every budget
NextFair ==
    \/ \E p \in Procs, s \in Users, r \in Users, n \in RetryBudgets :
          Invoke(p, s, r, 1, n)
    \/ \E p \in Procs : CallStep(p)

SpecFair == Init /\ [][NextFair]_vars /\ \A p \in Procs : WF_vars(CallStep(p))

\* the calls of any amount, zero and negative ones included, to known handles
\* and without retry budget
NextAnyAmount ==
    \/ \E p \in Procs, s \in Users, r \in Users, a \in AnyAmounts :
          Invoke(p, s, r, a, 0)
    \/ \E p \in Procs : Lookup(p)
    \/ \E p \in Procs : Debit(p)
    \/ \E p \in Procs : Credit(p)
    \/ \E p \in Procs : Save(p)
    \/ \E p \in Procs : Commit(p)

SpecAnyAmount == Init /\ [][NextAnyAmount]_vars

\* the query view over a store filled by calls of amount 1 to known handles,
\* without retry budget and without connection failures; the viewer's request
\* is the last step of a run: find changes nothing a transfer reads, so a run
\* that goes on after it has the same store as one in which it came later
NextFind ==
    \/ /\ findResult = Null
       /\ \/ \E p \in Procs, s \in Users, r \in Users : Invoke(p, s, r, 1, 0)
          \/ \E p \in Procs : Lookup(p)
          \/ \E p \in Procs : Debit(p)
          \/ \E p \in Procs : Credit(p)
          \/ \E p \in Procs : Save(p)
          \/ \E p \in Procs : Commit(p)
    \/ \E userId \in Users, start \in Dates, end \in Dates,
          skip \in 0..MaxSkip, take \in 1..MaxTake :
          Find(userId, [startPeriodDatetime |-> start, endPeriodDatetime |-> end],
               skip, take)

SpecFind == Init /\ [][NextFind]_vars

\* ------------------------------------------------------------------ claims
AttemptIds ==
    {t.id : t \in transfers} \cup {e.attempt : e \in applied}
        \cup UNION {{<<p, i>> : i \in 1..Len(outcomes[p])} : p \in Procs}

HasRecord(id) == \E t \in transfers : t.id = id
DebitApplied(id) == \E e \in applied : e.attempt = id /\ e.kind = "debit"
CreditApplied(id) == \E e \in applied : e.attempt = id /\ e.kind = "credit"

\* C1: in every committed state and for every attempt, the Transfer row of the
\* attempt exists iff its debit is applied iff its credit is applied; the
\* committed balances are the initial ones plus exactly the applied mutations;
\* and an attempt has a row iff it succeeded.
Atomicity ==
    /\ \A id \in AttemptIds :
          /\ HasRecord(id) <=> (DebitApplied(id) /\ CreditApplied(id))
          /\ DebitApplied(id) <=> CreditApplied(id)
    /\ \A a \in Users :
          balance[a] = InitBalance + SumDeltas({e \in applied : e.account = a})
    /\ \A p \in Procs : \A i \in 1..Len(outcomes[p]) :
          HasRecord(<<p, i>>) <=> outcomes[p][i].err = "ok"

\* one attempt committed, another was aborted by a conflict after its debit
\* and its credit were issued
AtomicityWitness ==
    /\ transfers # {}
    /\ \E p \in Procs : \E i \in 1..Len(outcomes[p]) :
          /\ outcomes[p][i].err = "TransactionConflict"
          /\ outcomes[p][i].debited
          /\ outcomes[p][i].credited

Total(b) == SumBalances(b, Users)

\* the step in which the attempt of p commits
Commits(p) == pc[p] = "commit" /\ pc'[p] = "done" /\ transfers' # transfers

\* C2 as stated: every successful transfer of amount A lowers the sender's
\* balance by A, raises the receiver's by A and keeps the total.
ConservationAsStated ==
    [][\A p \in Procs : Commits(p) =>
          /\ balance'[input[p].sender] = balance[input[p].sender] - input[p].amount
          /\ balance'[input[p].receiver] = balance[input[p].receiver] + input[p].amount
          /\ Total(balance') = Total(balance)]_vars

\* C2 (amended): a successful transfer of amount A between two distinct accounts
\* lowers the sender's balance by A and raises the receiver's by A; a transfer
\* from an account to itself leaves its balance as it was; no other balance
\* changes, and every step of every interleaving keeps the total.
Conservation ==
    [][/\ Total(balance') = Total(balance)
       /\ \A p \in Procs : Commits(p) =>
            LET s == input[p].sender
                r == input[p].receiver
                A == input[p].amount
            IN  /\ s # r => /\ balance'[s] = balance[s] - A
                            /\ balance'[r] = balance[r] + A
                /\ s = r => balance'[s] = balance[s]
                /\ \A a \in Users \ {s, r} : balance'[a] = balance[a]]_vars

\* a transfer between two distinct accounts has committed and shows in both
ConservationWitness ==
    \E t \in transfers :
        /\ t.sender # t.receiver
        /\ balance[t.sender] = InitBalance - t.amount
        /\ balance[t.receiver] = InitBalance + t.amount

Last(seq) == seq[Len(seq)]

\* what the call would return to its caller had it raised err
Thrown(err) == [thrown |-> err]

BusinessRejections == {"RecipientNotFound", "InsufficientFunds"}

AllConflicts(seq) == \A i \in 1..Len(seq) : seq[i].err = "TransactionConflict"

\* C3: a call whose attempt failed with RecipientNotFound or InsufficientFunds
\* ends by raising that error to its caller.
BusinessRejectionPropagates ==
    \A p \in Procs :
        (pc[p] = "done" /\ outcomes[p] # <<>>
            /\ Last(outcomes[p]).err \in BusinessRejections)
        => result[p] = Thrown(Last(outcomes[p]).err)

\* C4: a call all of whose attempts failed with a serialization conflict, down
\* to a budget of 0, ends by raising a terminal failure, not by returning
\* undefined.
RetryExhaustionSurfaces ==
    \A p \in Procs :
        (pc[p] = "done" /\ Len(outcomes[p]) = input[p].budget + 1
            /\ AllConflicts(outcomes[p]))
        => /\ result[p] # Undefined
           /\ result[p] = Thrown("TransactionConflict")

\* C5: if the first N attempts fail with a serialization conflict, N below the
\* budget, attempt N+1 is made, and if it succeeds the call is over after
\* exactly N+1 attempts and returns the Transfer row attempt N+1 committed.
RetryOnConflict ==
    \A p \in Procs : input[p] # Null =>
        \A N \in 0..(input[p].budget - 1) :
            (Len(outcomes[p]) >= N /\ AllConflicts(SubSeq(outcomes[p], 1, N)))
            => /\ Len(outcomes[p]) = N => pc[p] # "done"
               /\ (Len(outcomes[p]) > N /\ outcomes[p][N + 1].err = "ok")
                    => /\ Len(outcomes[p]) = N + 1
                       /\ pc[p] = "done"
                       /\ result[p] \in transfers
                       /\ result[p].id = <<p, N + 1>>

\* a call with budget 2 whose first attempt was aborted by a conflict and whose
\* second attempt committed
RetryOnConflictWitness ==
    \E p \in Procs :
        /\ pc[p] = "done"
        /\ input[p].budget = 2
        /\ Len(outcomes[p]) = 2
        /\ outcomes[p][1].err = "TransactionConflict"
        /\ outcomes[p][2].err = "ok"

\* C6: an attempt that failed with anything but a serialization conflict is
\* the last attempt of its call, whatever budget is left.
NonConflictNotRetried ==
    \A p \in Procs : \A i \in 1..Len(outcomes[p]) :
        outcomes[p][i].err \notin {"ok", "TransactionConflict"}
        => /\ i = Len(outcomes[p])
           /\ pc[p] = "done"
           /\ retries[p] = input[p].budget - (i - 1)

\* a call with budget left that ended after one attempt lost its connection,
\* beside a call with budget left that ended after one business rejection
NonConflictNotRetriedWitness ==
    \E p, q \in Procs :
        /\ pc[p] = "done" /\ input[p].budget > 0
        /\ Len(outcomes[p]) = 1 /\ outcomes[p][1].err = "ConnectionLost"
        /\ pc[q] = "done" /\ input[q].budget > 0
        /\ Len(outcomes[q]) = 1 /\ outcomes[q][1].err \in BusinessRejections

\* C7: the attempt of a call to an unknown handle ends at the lookup with
\* RecipientNotFound, with no debit and no credit issued, no row persisted
\* and no balance changed.
UnknownRecipientRejected ==
    [][\A p \in Procs :
          (pc[p] = "lookup" /\ pc'[p] # "lookup" /\ input[p].receiver \notin Users)
          => /\ pc'[p] = "done"
             /\ Last(outcomes'[p]) =
                    [err |-> "RecipientNotFound", debited |-> FALSE, credited |-> FALSE]
             /\ tx[p].ops = {} /\ tx[p].pending = {} /\ tx'[p] = NoTx
             /\ balance' = balance
             /\ transfers' = transfers
             /\ applied' = applied]_vars

\* a call to the unknown handle was rejected while the other call committed
UnknownRecipientWitness ==
    \E p \in Procs :
        /\ pc[p] = "done"
        /\ input[p].receiver = NoUser
        /\ Last(outcomes[p]).err = "RecipientNotFound"
        /\ transfers # {}

\* C8: the debit of an amount above the sender's balance ends the attempt with
\* InsufficientFunds: no balance changes, no credit is issued, no row is
\* persisted, and the call is not retried.
InsufficientFundsRejected ==
    [][\A p \in Procs :
          (pc[p] = "debit" /\ pc'[p] # "debit"
              /\ input[p].amount > balance[input[p].sender])
          => /\ pc'[p] = "done"
             /\ Last(outcomes'[p]) =
                    [err |-> "InsufficientFunds", debited |-> FALSE, credited |-> FALSE]
             /\ tx'[p] = NoTx
             /\ balance' = balance
             /\ transfers' = transfers
             /\ applied' = applied]_vars

\* a sender emptied by a committed transfer had its next transfer rejected
InsufficientFundsWitness ==
    \E p \in Procs :
        /\ pc[p] = "done"
        /\ Last(outcomes[p]).err = "InsufficientFunds"
        /\ balance[input[p].sender] < input[p].amount
        /\ \E t \in transfers : t.sender = input[p].sender

\* C9: every persisted Transfer row has balanceAfter = balanceBefore - amount.
BalanceSnapshots ==
    \A t \in transfers : t.balanceAfter = t.balanceBefore - t.amount

RowsOf(p) == {t \in transfers : t.id[1] = p}
AppliedOf(p, kind) == {e \in applied : e.attempt[1] = p /\ e.kind = kind}
CommittedOf(p) == {i \in 1..Len(outcomes[p]) : outcomes[p][i].err = "ok"}

\* C11: whatever conflicts and retries a call of initiateTransferWithRetry goes
\* through, at most one of its attempts commits, at most one Transfer row of
\* the call is persisted, the sender is debited at most once by the amount and
\* the receiver credited at most once by the amount; the call returns a
\* Transfer exactly when one attempt committed, and it returns that row.
NoDoubleApplication ==
    \A p \in Procs : input[p] # Null =>
        /\ Cardinality(CommittedOf(p)) <= 1
        /\ Cardinality(RowsOf(p)) <= 1
        /\ Cardinality(AppliedOf(p, "debit")) <= 1
        /\ Cardinality(AppliedOf(p, "credit")) <= 1
        /\ \A e \in AppliedOf(p, "debit") :
              e.account = input[p].sender /\ e.delta = 0 - input[p].amount
        /\ \A e \in AppliedOf(p, "credit") :
              e.account = input[p].receiver /\ e.delta = input[p].amount
        /\ pc[p] # "done" => (result[p] = Null /\ RowsOf(p) = {})
        /\ pc[p] = "done" =>
              IF CommittedOf(p) # {}
              THEN /\ RowsOf(p) = {result[p]}
                   /\ \E i \in CommittedOf(p) : result[p].id = <<p, i>>
              ELSE /\ RowsOf(p) = {}
                   /\ result[p] \notin transfers

\* a call whose first attempt was aborted by a conflict after its debit and
\* whose second attempt committed: one row, one debit, one credit
NoDoubleApplicationWitness ==
    \E p \in Procs :
        /\ pc[p] = "done"
        /\ Len(outcomes[p]) = 2
        /\ outcomes[p][1].err = "TransactionConflict" /\ outcomes[p][1].debited
        /\ outcomes[p][2].err = "ok"
        /\ RowsOf(p) = {result[p]}
        /\ Cardinality(AppliedOf(p, "debit")) = 1
        /\ Cardinality(AppliedOf(p, "credit")) = 1

\* the attempts the call of p has started, and the retries it has made
AttemptsStarted(p) ==
    IF pc[p] \in {"backoff", "done"} THEN Len(outcomes[p]) ELSE Len(outcomes[p]) + 1
RetriesMade(p) == AttemptsStarted(p) - 1

\* C12: a call with budget R makes at most R + 1 attempts; every retry lowers
\* the budget by exactly 1 and the budget never falls below 0; and, every
\* attempt completing, the call completes.
BoundedRetry ==
    /\ [](\A p \in Procs : input[p] # Null =>
            /\ AttemptsStarted(p) <= input[p].budget + 1
            /\ retries[p] >= 0
            /\ retries[p] = input[p].budget - RetriesMade(p))
    /\ [][\A p \in Procs : (pc[p] = "backoff" /\ pc'[p] # "backoff") =>
            /\ retries[p] > 0
            /\ retries'[p] = retries[p] - 1
            /\ pc'[p] = "lookup"]_vars
    /\ \A p \in Procs : (input[p] # Null) ~> (pc[p] = "done")

\* a call with budget 1 that made its two attempts and used its budget up,
\* beside a call with budget 0 that was over after its only attempt
BoundedRetryWitness ==
    \E p, q \in Procs :
        /\ pc[p] = "done" /\ input[p].budget = 1 /\ Len(outcomes[p]) = 2
        /\ retries[p] = 0
        /\ pc[q] = "done" /\ input[q].budget = 0 /\ Len(outcomes[q]) = 1

InAttempt(p) == pc[p] \in {"lookup", "debit", "credit", "save", "commit"}

\* C13: a call holds a transaction exactly while one of its attempts runs;
\* every attempt starts on a fresh transaction that carries nothing of an
\* earlier attempt; the transaction of an aborted attempt is rolled back
\* before the backoff wait starts, none is open during the wait, and none is
\* left open when the call is over.
TransactionScoping ==
    \A p \in Procs :
        /\ InAttempt(p) <=> tx[p].open
        /\ ~InAttempt(p) => tx[p] = NoTx
        /\ pc[p] = "lookup" => tx[p] = OpenTx
        /\ \A r \in tx[p].pending : r.id = AttemptId(p)
        /\ tx[p].debited => \E op \in tx[p].ops : op.kind = "debit"
        /\ ~tx[p].open => \A e \in applied : e.attempt[1] = p =>
              \E i \in CommittedOf(p) : e.attempt = <<p, i>>

\* a call waits in its backoff after a conflict aborted an attempt that had
\* debited and credited: it holds no transaction and nothing of it is applied
TransactionScopingWitness ==
    \E p \in Procs :
        /\ pc[p] = "backoff"
        /\ Last(outcomes[p]).err = "TransactionConflict"
        /\ Last(outcomes[p]).debited /\ Last(outcomes[p]).credited
        /\ tx[p] = NoTx
        /\ AppliedOf(p, "debit") = {}

\* C18: every persisted Transfer row has amount > 0, and a call of
\* initiateTransfer with an amount of 0 or below persists no row and changes
\* no balance.
PositiveAmount ==
    /\ \A t \in transfers : t.amount > 0
    /\ \A p \in Procs : (input[p] # Null /\ input[p].amount <= 0) =>
          /\ RowsOf(p) = {}
          /\ AppliedOf(p, "debit") = {}
          /\ AppliedOf(p, "credit") = {}

\* C14: in every committed state, after any interleaving of concurrent
\* attempts, every account balance is 0 or above.
NonNegativeBalances == \A a \in Users : balance[a] >= 0

\* C15: within an attempt the credit is issued only after the debit of that
\* attempt succeeded, and the Transfer row is constructed and saved only after
\* both succeeded; of an attempt that failed, at the credit or anywhere else,
\* no debit is committed.
StepOrdering ==
    \A p \in Procs :
        /\ pc[p] = "credit" => (tx[p].debited /\ ~tx[p].credited)
        /\ pc[p] \in {"save", "commit"} => (tx[p].debited /\ tx[p].credited)
        /\ tx[p].credited => tx[p].debited
        /\ tx[p].pending # {} => (tx[p].debited /\ tx[p].credited)
        /\ \A g \in generated : g.attempt[1] = p =>
              \/ (g.attempt = AttemptId(p) /\ tx[p].debited /\ tx[p].credited)
              \/ /\ g.attempt[2] <= Len(outcomes[p])
                 /\ outcomes[p][g.attempt[2]].debited
                 /\ outcomes[p][g.attempt[2]].credited
        /\ \A i \in 1..Len(outcomes[p]) :
              /\ outcomes[p][i].credited => outcomes[p][i].debited
              /\ outcomes[p][i].err = "ok" =>
                    (outcomes[p][i].debited /\ outcomes[p][i].credited)
              /\ outcomes[p][i].err # "ok" =>
                    (~DebitApplied(<<p, i>>) /\ ~CreditApplied(<<p, i>>))

\* the credit of an attempt failed on a conflict after its debit had
\* succeeded: the debit is not committed and the sender's balance is untouched
StepOrderingWitness ==
    \E p \in Procs : \E i \in 1..Len(outcomes[p]) :
        /\ outcomes[p][i].err = "TransactionConflict"
        /\ outcomes[p][i].debited /\ ~outcomes[p][i].credited
        /\ ~DebitApplied(<<p, i>>)
        /\ \A e \in applied : e.account # input[p].sender
        /\ balance[input[p].sender] = InitBalance

\* C16: a persisted Transfer row stays in the store with every field as it
\* was persisted, whatever initiateTransfer, initiateTransferWithRetry, find
\* and buildFilter do afterwards: the store only grows, and no row gets a
\* second version.
AppendOnly ==
    [][/\ \A t \in transfers : t \in transfers'
       /\ \A t, u \in transfers' : t.id = u.id => t = u]_vars

\* two rows were persisted one after the other and a find returned both
AppendOnlyWitness ==
    /\ findResult # Null
    /\ Cardinality(transfers) = 2
    /\ Len(findResult.records) = 2
    /\ \E t, u \in transfers : t.createdAt < u.createdAt /\ t.sender = u.sender

\* no two persisted rows carry the same reference
UniqueReferences == \A t, u \in transfers : t.reference = u.reference => t = u

InRange(start, end, createdAt) ==
    /\ start # NoDate => createdAt >= start
    /\ end # NoDate => createdAt <= end

\* C19: buildFilter puts no constraint on createdAt when the query has neither
\* bound, createdAt >= start when it has only the start, createdAt <= end when
\* it has only the end and start <= createdAt <= end when it has both; the
\* filter is the same whatever else the query carries; and the rows a find
\* returns to their sender are the ones in the range of its query.
BuildFilterRanges ==
    /\ \A start \in Dates, end \in Dates :
          LET query == [startPeriodDatetime |-> start, endPeriodDatetime |-> end]
              filter == buildFilter(query)
          IN  /\ \A createdAt \in 0..(Cardinality(Procs) + 1) :
                    Satisfies(filter, [createdAt |-> createdAt])
                        <=> InRange(start, end, createdAt)
              /\ (start = NoDate /\ end = NoDate) <=> filter.op = "none"
              /\ (start # NoDate /\ end = NoDate) <=> filter.op = "gte"
              /\ (start = NoDate /\ end # NoDate) <=> filter.op = "lte"
              /\ (start # NoDate /\ end # NoDate) <=> filter.op = "between"
              /\ \A page \in 0..MaxSkip, limit \in 1..MaxTake :
                    buildFilter([startPeriodDatetime |-> start,
                                 endPeriodDatetime |-> end,
                                 page |-> page, limit |-> limit]) = filter
    /\ findResult # Null =>
          \A i \in 1..Len(findResult.records) :
              findResult.records[i].receiver # findResult.userId
              => InRange(findResult.query.startPeriodDatetime,
                         findResult.query.endPeriodDatetime,
                         findResult.records[i].createdAt)

\* a find with both bounds set to the time of the second row was answered for
\* the sender of the first row, who has no part in the second: it got nothing
BuildFilterRangesWitness ==
    /\ findResult # Null
    /\ findResult.query.startPeriodDatetime = 2
    /\ findResult.query.endPeriodDatetime = 2
    /\ \E t, u \in transfers :
          /\ t.createdAt = 1 /\ u.createdAt = 2
          /\ t.sender = findResult.userId /\ t.receiver # findResult.userId
          /\ u.sender # findResult.userId /\ u.receiver # findResult.userId
    /\ findResult.count = 0
    /\ findResult.records = <<>>

\* C20: an attempt whose sender and receiver are the same account, with a
\* balance that covers the amount, commits; the account's balance after it is
\* the balance before it; and its row carries balanceAfter = balanceBefore -
\* amount, which is not the balance the account has after the commit.
SelfTransferSnapshot ==
    [][\A p \in Procs :
          (Commits(p) /\ input[p].sender = input[p].receiver) =>
              /\ balance'[input[p].sender] = balance[input[p].sender]
              /\ result'[p].balanceAfter =
                    result'[p].balanceBefore - input[p].amount
              /\ result'[p].balanceAfter # balance'[input[p].sender]]_vars
====
